---- MODULE Spec2Model ----
(***************************************************************************)
(* Forecasting engine of aws-cost-analyzer: the four forecast models       *)
(* (analyzers/forecast_models.py), the walk-forward backtest and model     *)
(* selection (analyzers/forecast_accuracy.py) and the orchestration        *)
(* (analyzers/forecasting.py).                                             *)
(*                                                                         *)
(* Numbers.  Costs are integers (cents).  Floating point results are kept  *)
(* in fixed point: money in cents, percentages in hundredths of a percent, *)
(* z-scores, weights and square roots in thousandths.  NaN and inf are two *)
(* distinguished values with the IEEE rules the code relies on: arithmetic *)
(* with NaN gives NaN and every comparison with NaN is false.              *)
(*                                                                         *)
(* Libraries.  statsmodels, numpy.polyfit and the imports inside each      *)
(* model's try block are not code of this repository.  What they return is *)
(* a fixed but unknown function of the call's input: an oracle value that  *)
(* says whether the library raises and which of a few candidate fits it    *)
(* returns.  Everything the repository computes from the library's answer  *)
(* (forecast arrays, residuals, intervals, dates, metrics) is computed.    *)
(***************************************************************************)
EXTENDS Integers, Sequences, FiniteSets, TLC

(* ------------------------------ bounds -------------------------------- *)

\* longest input series
MaxLen == 29

\* largest configured forecast horizon
MaxHorizon == 14

(* ------------------------- program constants -------------------------- *)

BACKTEST_HOLDOUT_DAYS == 7

\* an entry test that turns a DataFrame of 7 rows away
MinDaysOneMore == BACKTEST_HOLDOUT_DAYS + 1

\* an entry test that lets a DataFrame of 6 rows through
MinDaysOneShort == BACKTEST_HOLDOUT_DAYS - 1

MIN_DAYS_FOR_FORECASTING == 7

\* the confidence level evaluate_model passes (0.95), in percent
BACKTEST_CONFIDENCE == 95

\* np.nan
NaN == -2000000000

\* float("inf")
Inf == 2000000000

HW == "Holt-Winters"

SD == "Seasonal Decomposition"

WMA == "Weighted Moving Average"

PT == "Polynomial Trend"

ModelNames == {HW, SD, WMA, PT}

\* thresholds with the seasonal decomposition's copied from Holt-Winters
MinDataPointsCopied(m) ==
    CASE m = HW -> 14
      [] m = SD -> 14
      [] m = WMA -> 7
      [] m = PT -> 7

\* the class attribute min_data_points of each model
MinDataPoints(m) ==
    CASE m = HW -> 14
      [] m = SD -> 21
      [] m = WMA -> 7
      [] m = PT -> 7

\* _get_all_models: the fixed declaration order
GetAllModels == <<HW, SD, WMA, PT>>

(* --------------------------- float helpers ---------------------------- *)

IsNaN(x) == x = NaN

FAdd(a, b) == IF IsNaN(a) \/ IsNaN(b) THEN NaN ELSE a + b

FSub(a, b) == IF IsNaN(a) \/ IsNaN(b) THEN NaN ELSE a - b

\* a <= b on floats: false as soon as one side is NaN
FLe(a, b) == ~IsNaN(a) /\ ~IsNaN(b) /\ a <= b

Abs(x) == IF x < 0 THEN -x ELSE x

Min(a, b) == IF a <= b THEN a ELSE b

RECURSIVE SeqSum(_)
SeqSum(s) == IF Len(s) = 0 THEN 0 ELSE Head(s) + SeqSum(Tail(s))

\* the defined (non-NaN) entries of s, in order: Series.dropna()
RECURSIVE DropNa(_)
DropNa(s) ==
    IF Len(s) = 0 THEN <<>>
    ELSE IF IsNaN(Head(s)) THEN DropNa(Tail(s))
    ELSE <<Head(s)>> \o DropNa(Tail(s))

\* floor of the square root, by bisection on [lo, hi]
RECURSIVE SqrtBetween(_, _, _)
SqrtBetween(x, lo, hi) ==
    IF lo >= hi THEN lo
    ELSE LET mid == (lo + hi + 1) \div 2
         IN  IF mid * mid <= x THEN SqrtBetween(x, mid, hi)
             ELSE SqrtBetween(x, lo, mid - 1)

ISqrt(x) == SqrtBetween(x, 0, 46340)

\* np.sqrt(step), in thousandths
SqrtMilli(k) == ISqrt(k * 1000000)

\* sum of squared deviations from the mean, times n (exact in integers)
SqDevTimesN(xs) ==
    LET n == Len(xs)
        sq == [i \in 1..n |-> xs[i] * xs[i]]
    IN  n * SeqSum(sq) - SeqSum(xs) * SeqSum(xs)

\* pandas Series.std(): sample standard deviation (ddof = 1); NaN when fewer
\* than two values are left
StdSample(xs) ==
    LET n == Len(xs)
    IN  IF n < 2 THEN NaN
        ELSE ISqrt(SqDevTimesN(xs) \div (n * (n - 1)))

\* np.std(): population standard deviation (ddof = 0)
StdPopulation(xs) ==
    LET n == Len(xs)
    IN  IF n = 0 THEN NaN ELSE ISqrt(SqDevTimesN(xs) \div (n * n))

\* scipy.stats.norm.ppf(1 - (1 - confidence_level) / 2), in thousandths, for
\* the confidence levels (percent) the model draws from
ZMilli(cl) ==
    CASE cl = 80 -> 1282
      [] cl = 90 -> 1645
      [] cl = 95 -> 1960
      [] cl = 99 -> 2576

\* ci_width = residual_std * z * np.sqrt(steps), steps = 1..horizon
\* (np.arange(1, horizon + 1) is empty for horizon < 1)
CiWidth(residual_std, cl, horizon) ==
    [k \in 1..horizon |->
        IF IsNaN(residual_std) THEN NaN
        ELSE (((residual_std * ZMilli(cl)) \div 1000) * SqrtMilli(k)) \div 1000]

\* a date range of one period too many
ForecastDatesOneMore(lastDate, horizon) == [k \in 1..(horizon + 1) |-> lastDate + k]

\* a date range that starts on the series' last date
ForecastDatesFromLast(lastDate, horizon) == [k \in 1..horizon |-> lastDate + k - 1]

\* pd.date_range(start = series.index[-1] + 1 day, periods = horizon,
\* freq = "D"); dates are day ordinals
ForecastDates(lastDate, horizon) == [k \in 1..horizon |-> lastDate + k]

(* ------------------------ library behaviour --------------------------- *)

\* What a library call does on one input: it raises, or it returns the fit
\* numbered prof among the candidate fits below.
Oracles ==
    {[raises |-> TRUE, prof |-> 0]} \cup {[raises |-> FALSE, prof |-> p] : p \in 0..1}

\* np.polyfit(x, ys, degree) with x = 0..len-1: coefficients, highest power
\* first.  Candidate 0 is the constant through the mean, candidate 1 the
\* line through the first and the last point.
PolyFit(ys, degree, prof) ==
    LET n == Len(ys)
        lin == IF prof = 0 THEN <<0, SeqSum(ys) \div n>>
               ELSE <<(ys[n] - ys[1]) \div (n - 1), ys[1]>>
    IN  IF degree = 2 THEN <<0>> \o lin ELSE lin

\* np.polyval(coeffs, x)
PolyVal(coeffs, x) ==
    IF Len(coeffs) = 3 THEN coeffs[1] * x * x + coeffs[2] * x + coeffs[3]
    ELSE coeffs[1] * x + coeffs[2]

\* ExponentialSmoothing(...).fit().fittedvalues: candidate 0 is the level-only
\* fit (yesterday's value), candidate 1 the seasonal fit (last week's value)
HWFittedValues(series, prof) ==
    LET lag == IF prof = 0 THEN 1 ELSE 7
    IN  [i \in 1..Len(series) |-> IF i > lag THEN series[i - lag] ELSE series[i]]

\* fit.forecast(horizon): candidate 0 continues the last level, candidate 1
\* repeats the last week
HWForecast(series, horizon, prof) ==
    LET n == Len(series)
    IN  [k \in 1..horizon |->
            IF prof = 0 THEN series[n] ELSE series[n - 7 + ((k - 1) % 7) + 1]]

\* seasonal_decompose(series, model="additive", period=7).trend: the centred
\* 7-day mean, undefined on the first and last three days
DecomposeTrend(series) ==
    LET n == Len(series)
    IN  [i \in 1..n |->
            IF i < 4 \/ i > n - 3 THEN NaN
            ELSE SeqSum(SubSeq(series, i - 3, i + 3)) \div 7]

\* seasonal_decompose(...).seasonal: per weekday position the mean of the
\* detrended values, centred to sum to zero, repeated over the series
DecomposeSeasonal(series) ==
    LET n == Len(series)
        trend == DecomposeTrend(series)
        detr == [i \in 1..n |-> FSub(series[i], trend[i])]
        avg == [k \in 0..6 |->
                  LET at == DropNa([j \in 1..((n - k + 6) \div 7) |-> detr[k + 1 + 7 * (j - 1)]])
                  IN  IF Len(at) = 0 THEN 0 ELSE SeqSum(at) \div Len(at)]
        mean == SeqSum([k \in 1..7 |-> avg[k - 1]]) \div 7
    IN  [i \in 1..n |-> avg[(i - 1) % 7] - mean]

\* np.exp(np.linspace(-1, 0, window)) up to the common factor 1/e, in
\* thousandths: exp(j / (window - 1)), j = 0..window-1, by its power series
ExpMilli(x) ==
    LET t1 == x
        t2 == (t1 * x) \div 2000
        t3 == (t2 * x) \div 3000
        t4 == (t3 * x) \div 4000
        t5 == (t4 * x) \div 5000
        t6 == (t5 * x) \div 6000
        t7 == (t6 * x) \div 7000
    IN  1000 + t1 + t2 + t3 + t4 + t5 + t6 + t7

\* weights that decay the other way: np.linspace(0, -1, window)
WeightsOldestMost(window) ==
    [j \in 1..window |->
        IF window = 1 THEN 1000 ELSE ExpMilli(((window - j) * 1000) \div (window - 1))]

\* the weights of a window, oldest observation first
Weights(window) ==
    [j \in 1..window |->
        IF window = 1 THEN 1000 ELSE ExpMilli(((j - 1) * 1000) \div (window - 1))]

\* np.average(segment, weights = w / w.sum())
WeightedAverage(segment) ==
    LET w == Weights(Len(segment))
    IN  SeqSum([j \in 1..Len(segment) |-> w[j] * segment[j]]) \div SeqSum(w)

(* ----------------------------- the models ----------------------------- *)

\* The Failure value.  attempted tells the two ways to it apart: the early
\* return before the try block, and an exception caught by it.
NoneEarly == [ok |-> FALSE, attempted |-> FALSE]

NoneRaised == [ok |-> FALSE, attempted |-> TRUE]

\* ForecastResult(...), with the interval built the same way in every model:
\* lower_ci = forecast_values - ci_width, upper_ci = forecast_values + ci_width
ForecastResult(name, forecast_values, fitted_values, residuals, residual_std, lastDate, horizon, cl) ==
    LET ci_width == CiWidth(residual_std, cl, horizon)
    IN  [ok |-> TRUE, attempted |-> TRUE,
         model_name |-> name,
         forecast_values |-> forecast_values,
         forecast_dates |-> ForecastDates(lastDate, horizon),
         lower_ci |-> [k \in 1..horizon |-> FSub(forecast_values[k], ci_width[k])],
         upper_ci |-> [k \in 1..horizon |-> FAdd(forecast_values[k], ci_width[k])],
         fitted_values |-> fitted_values,
         residuals |-> residuals,
         residual_std |-> residual_std,
         confidence_level |-> cl]

Residuals(series, fitted_values) ==
    [i \in 1..Len(series) |-> FSub(series[i], fitted_values[i])]

\* HoltWintersModel.fit_and_forecast.  fit.forecast(horizon) raises for
\* horizon < 1 (the prediction must end after it starts).
HoltWintersFit(series, lastDate, horizon, cl, o) ==
    IF Len(series) < MinDataPoints(HW) THEN NoneEarly
    ELSE IF o.raises \/ horizon < 1 THEN NoneRaised
    ELSE LET forecast_values == HWForecast(series, horizon, o.prof)
             fitted_values == HWFittedValues(series, o.prof)
             residuals == Residuals(series, fitted_values)
             residual_std == StdSample(residuals)
         IN  ForecastResult(HW, forecast_values, fitted_values, residuals,
                            residual_std, lastDate, horizon, cl)

\* SeasonalDecompositionModel.fit_and_forecast.  pd.date_range raises for a
\* negative number of periods.
SeasonalDecompositionFit(series, lastDate, horizon, cl, o) ==
    IF Len(series) < MinDataPoints(SD) THEN NoneEarly
    ELSE IF o.raises \/ horizon < 0 THEN NoneRaised
    ELSE LET n == Len(series)
             trend_vals == DecomposeTrend(series)
             seasonal_vals == DecomposeSeasonal(series)
             trend == DropNa(trend_vals)
             coeffs == PolyFit(trend, 1, o.prof)
             forecast_values ==
                 [k \in 1..horizon |->
                     PolyVal(coeffs, Len(trend) + k - 1)
                     + seasonal_vals[n - 7 + ((k - 1) % 7) + 1]]
             fitted_values ==
                 [i \in 1..n |->
                     IF IsNaN(trend_vals[i]) THEN NaN
                     ELSE trend_vals[i] + seasonal_vals[i]]
             residuals == Residuals(series, fitted_values)
             residual_std == StdSample(DropNa(residuals))
         IN  ForecastResult(SD, forecast_values, fitted_values, residuals,
                            residual_std, lastDate, horizon, cl)

\* WeightedMovingAverageModel.fit_and_forecast.  np.full(horizon, ...) raises
\* for a negative horizon.
WeightedMovingAverageFit(series, lastDate, horizon, cl, o) ==
    IF Len(series) < MinDataPoints(WMA) THEN NoneEarly
    ELSE IF o.raises \/ horizon < 0 THEN NoneRaised
    ELSE LET n == Len(series)
             window == Min(14, n)
             weighted_avg == WeightedAverage(SubSeq(series, n - window + 1, n))
             forecast_values == [k \in 1..horizon |-> weighted_avg]
             fitted_values ==
                 [i \in 1..n |->
                     IF i < window THEN NaN
                     ELSE WeightedAverage(SubSeq(series, i - window + 1, i))]
             residuals == Residuals(series, fitted_values)
             residual_std == StdSample(DropNa(residuals))
         IN  ForecastResult(WMA, forecast_values, fitted_values, residuals,
                            residual_std, lastDate, horizon, cl)

\* PolynomialTrendModel.fit_and_forecast.  pd.date_range raises for a
\* negative number of periods.
PolynomialTrendFit(series, lastDate, horizon, cl, o) ==
    IF Len(series) < MinDataPoints(PT) THEN NoneEarly
    ELSE IF o.raises \/ horizon < 0 THEN NoneRaised
    ELSE LET n == Len(series)
             degree == IF n >= 10 THEN 2 ELSE 1
             coeffs == PolyFit(series, degree, o.prof)
             fitted_values == [i \in 1..n |-> PolyVal(coeffs, i - 1)]
             forecast_values == [k \in 1..horizon |-> PolyVal(coeffs, n + k - 1)]
             residuals == Residuals(series, fitted_values)
             residual_std == StdPopulation(residuals)
         IN  ForecastResult(PT, forecast_values, fitted_values, residuals,
                            residual_std, lastDate, horizon, cl)

\* model.fit_and_forecast(series, horizon, confidence_level)
FitAndForecast(m, series, lastDate, horizon, cl, o) ==
    CASE m = HW -> HoltWintersFit(series, lastDate, horizon, cl, o)
      [] m = SD -> SeasonalDecompositionFit(series, lastDate, horizon, cl, o)
      [] m = WMA -> WeightedMovingAverageFit(series, lastDate, horizon, cl, o)
      [] m = PT -> PolynomialTrendFit(series, lastDate, horizon, cl, o)

(* ------------------------ ForecastAccuracyTracker ---------------------- *)

\* a test that lets a series one day too short through
CanBacktestOffByOne(m, series) ==
    Len(series) >= BACKTEST_HOLDOUT_DAYS + MinDataPoints(m) - 1

\* the negation of evaluate_model's first test: enough data for a backtest
CanBacktest(m, series) == Len(series) >= BACKTEST_HOLDOUT_DAYS + MinDataPoints(m)

\* a training series that still holds the held-out days
TrainSeriesWhole(series) == series

\* train = series.iloc[:-holdout]
TrainSeries(series) == SubSeq(series, 1, Len(series) - BACKTEST_HOLDOUT_DAYS)

\* actual = series.iloc[-holdout:].values
ActualValues(series) ==
    SubSeq(series, Len(series) - BACKTEST_HOLDOUT_DAYS + 1, Len(series))

\* the arguments of the one fit_and_forecast call evaluate_model makes; the
\* training series ends holdout days before the series does
BacktestCall(m, series, lastDate) ==
    [tag |-> "train", model |-> m, series |-> TrainSeries(series),
     lastDate |-> lastDate - BACKTEST_HOLDOUT_DAYS,
     horizon |-> BACKTEST_HOLDOUT_DAYS, cl |-> BACKTEST_CONFIDENCE]

CallFit(c, o) == FitAndForecast(c.model, c.series, c.lastDate, c.horizon, c.cl, o)

\* a MAPE that divides by the number of all positions
MapeOverAll(actual, predicted) ==
    LET nonzero == {i \in 1..Len(actual) : actual[i] # 0}
        term == [i \in 1..Len(actual) |->
                    IF actual[i] = 0 THEN 0
                    ELSE (Abs(actual[i] - predicted[i]) * 10000) \div Abs(actual[i])]
    IN  IF nonzero # {} THEN SeqSum(term) \div Len(actual) ELSE Inf

\* MAPE over the non-zero actuals, in hundredths of a percent; inf if none
Mape(actual, predicted) ==
    LET nonzero == {i \in 1..Len(actual) : actual[i] # 0}
        term == [i \in 1..Len(actual) |->
                    IF actual[i] = 0 THEN 0
                    ELSE (Abs(actual[i] - predicted[i]) * 10000) \div Abs(actual[i])]
    IN  IF nonzero # {} THEN SeqSum(term) \div Cardinality(nonzero) ELSE Inf

Rmse(actual, predicted) ==
    LET sq == [i \in 1..Len(actual) |->
                  (actual[i] - predicted[i]) * (actual[i] - predicted[i])]
    IN  ISqrt(SeqSum(sq) \div Len(actual))

Mae(actual, predicted) ==
    SeqSum([i \in 1..Len(actual) |-> Abs(actual[i] - predicted[i])]) \div Len(actual)

\* a direction test that puts an unchanged value with the decreases
DirectionalAccuracyStrict(actual, predicted) ==
    IF Len(actual) > 1
    THEN LET same == {i \in 1..(Len(actual) - 1) :
                         (actual[i + 1] - actual[i] > 0)
                         <=> (predicted[i + 1] - predicted[i] > 0)}
         IN  (Cardinality(same) * 10000) \div (Len(actual) - 1)
    ELSE 0

\* np.mean(actual_dir == predicted_dir) * 100 with dir = np.diff(.) >= 0
DirectionalAccuracy(actual, predicted) ==
    IF Len(actual) > 1
    THEN LET same == {i \in 1..(Len(actual) - 1) :
                         (actual[i + 1] - actual[i] >= 0)
                         <=> (predicted[i + 1] - predicted[i] >= 0)}
         IN  (Cardinality(same) * 10000) \div (Len(actual) - 1)
    ELSE 0

\* np.mean((actual >= lower) & (actual <= upper)) * 100
CiCoverage(actual, lower, upper) ==
    LET within == {i \in 1..Len(actual) :
                      FLe(lower[i], actual[i]) /\ FLe(actual[i], upper[i])}
    IN  (Cardinality(within) * 10000) \div Len(actual)

NoMetrics == [ok |-> FALSE]

\* AccuracyMetrics(...) of a backtest result
AccuracyMetrics(m, actual, result) ==
    LET holdout == BACKTEST_HOLDOUT_DAYS
        predicted == SubSeq(result.forecast_values, 1, holdout)
        lower == SubSeq(result.lower_ci, 1, holdout)
        upper == SubSeq(result.upper_ci, 1, holdout)
    IN  [ok |-> TRUE,
         model_name |-> m,
         mape |-> Mape(actual, predicted),
         rmse |-> Rmse(actual, predicted),
         mae |-> Mae(actual, predicted),
         directional_accuracy |-> DirectionalAccuracy(actual, predicted),
         ci_coverage |-> CiCoverage(actual, lower, upper)]

\* evaluate_model(model, series); o is what the library does on the call
EvaluateModel(m, series, lastDate, o) ==
    IF ~CanBacktest(m, series) THEN NoMetrics
    ELSE LET result == CallFit(BacktestCall(m, series, lastDate), o)
         IN  IF ~result.ok THEN NoMetrics
             ELSE AccuracyMetrics(m, ActualValues(series), result)

\* the fit_and_forecast calls evaluate_model makes: none or one
EvaluateCalls(m, series, lastDate) ==
    IF CanBacktest(m, series) THEN <<BacktestCall(m, series, lastDate)>> ELSE <<>>

\* an insertion that puts an entry before the entries with an equal key
RECURSIVE InsertByMapeUnstable(_, _)
InsertByMapeUnstable(r, sorted) ==
    IF Len(sorted) = 0 THEN <<r>>
    ELSE IF Head(sorted).metrics.mape < r.metrics.mape
         THEN <<Head(sorted)>> \o InsertByMapeUnstable(r, Tail(sorted))
         ELSE <<r>> \o sorted

\* list.sort(key = mape) is stable: an entry goes behind every entry whose
\* key is not larger
RECURSIVE InsertByMape(_, _)
InsertByMape(r, sorted) ==
    IF Len(sorted) = 0 THEN <<r>>
    ELSE IF Head(sorted).metrics.mape <= r.metrics.mape
         THEN <<Head(sorted)>> \o InsertByMape(r, Tail(sorted))
         ELSE <<r>> \o sorted

RECURSIVE SortByMape(_)
SortByMape(rs) ==
    IF Len(rs) = 0 THEN <<>>
    ELSE InsertByMape(rs[Len(rs)], SortByMape(SubSeq(rs, 1, Len(rs) - 1)))

\* a fallback that ends on the first model of the list instead of the last
FallbackModelFirst(ms, series) ==
    LET fits == {i \in 1..Len(ms) : Len(series) >= MinDataPoints(ms[i])}
    IN  IF fits # {} THEN ms[CHOOSE i \in fits : \A j \in fits : i <= j]
        ELSE ms[1]

\* select_best_model, no backtest result: the first model that can fit,
\* else the last model of the list
FallbackModel(ms, series) ==
    LET fits == {i \in 1..Len(ms) : Len(series) >= MinDataPoints(ms[i])}
    IN  IF fits # {} THEN ms[CHOOSE i \in fits : \A j \in fits : i <= j]
        ELSE ms[Len(ms)]

\* a selection that returns the metrics in the order of evaluation
SelectBestUnsortedMetrics(ms, series, rs) ==
    IF Len(rs) = 0 THEN [best_model |-> FallbackModel(ms, series), all_metrics |-> <<>>]
    ELSE LET sorted == SortByMape(rs)
         IN  [best_model |-> sorted[1].model,
              all_metrics |-> [i \in 1..Len(rs) |-> rs[i].metrics]]

\* a selection that takes the entry at the wrong end of the sorted list
SelectBestWorst(ms, series, rs) ==
    IF Len(rs) = 0 THEN [best_model |-> FallbackModel(ms, series), all_metrics |-> <<>>]
    ELSE LET sorted == SortByMape(rs)
         IN  [best_model |-> sorted[Len(sorted)].model,
              all_metrics |-> [i \in 1..Len(sorted) |-> sorted[i].metrics]]

\* select_best_model after its loop: rs is the list of (model, metrics) pairs
\* of the models that were evaluated successfully, in the order of ms
SelectBest(ms, series, rs) ==
    IF Len(rs) = 0 THEN [best_model |-> FallbackModel(ms, series), all_metrics |-> <<>>]
    ELSE LET sorted == SortByMape(rs)
         IN  [best_model |-> sorted[1].model,
              all_metrics |-> [i \in 1..Len(sorted) |-> sorted[i].metrics]]

(* ------------------------------ inputs -------------------------------- *)

Shapes == {"flat", "linear", "weekly", "zerotail", "zerodays"}

\* a daily cost series of n days: constant, rising, with a weekly pattern,
\* dropping to zero for its last week, or rising with no cost on its last
\* three days
MakeSeries(shape, n) ==
    [i \in 1..n |->
        CASE shape = "flat" -> 100
          [] shape = "linear" -> 50 + 2 * (i - 1)
          [] shape = "weekly" -> 100 + 10 * ((i - 1) % 7)
          [] shape = "zerotail" -> IF i > n - 7 THEN 0 ELSE 100
          [] shape = "zerodays" -> IF i > n - 3 THEN 0 ELSE 80 + 3 * (i - 1)]

Horizons == {-1, 0, 1, 7, MaxHorizon}

ConfLevels == {90, 95}

LastDates == {20, 31}

\* the lists select_best_model is given: the declaration order, its reverse,
\* and shorter lists
ModelLists ==
    {GetAllModels, <<PT, WMA, SD, HW>>, <<WMA, PT>>, <<PT, WMA>>, <<SD, HW>>, <<HW>>}

\* the library outcomes that differ for model m (the weighted moving average
\* uses no fitting library, only the import)
OraclesFor(m) == IF m = WMA THEN {o \in Oracles : o.prof = 0} ELSE Oracles

NoOracle == [raises |-> FALSE, prof |-> 0]

\* config.min_service_cost_for_analysis (1.0), in cents
min_service_cost_for_analysis == 100

TOP_SERVICES_COUNT == 6

DECEMBER_MONTH == 12

TotalColumn == "Total costs($)"

\* the service cost columns a DataFrame may have, in column order
ServiceColumns ==
    <<"svc1($)", "svc2($)", "svc3($)", "svc4($)", "svc5($)", "svc6($)", "svc7($)">>

\* col.endswith("($)")
EndsWithDollar(col) ==
    col = TotalColumn \/ \E i \in 1..Len(ServiceColumns) : ServiceColumns[i] = col

\* service_col.replace("($)", "").strip()
ServiceName(col) ==
    CASE col = "svc1($)" -> "svc1"
      [] col = "svc2($)" -> "svc2"
      [] col = "svc3($)" -> "svc3"
      [] col = "svc4($)" -> "svc4"
      [] col = "svc5($)" -> "svc5"
      [] col = "svc6($)" -> "svc6"
      [] col = "svc7($)" -> "svc7"

\* the daily cost level (cents) of each service column of a DataFrame, by
\* kind of DataFrame: no service column; seven services over the threshold,
\* the two cheapest with the same total; three services, the second under
\* the threshold; two services whose totals are under the threshold, the
\* first of them over it once a missing day is filled
ServiceLevels(kind) ==
    CASE kind = "none" -> <<>>
      [] kind = "seven" -> <<40, 30, 70, 60, 50, 20, 20>>
      [] kind = "mixed" -> <<50, 1, 30>>
      [] kind = "gappy" -> <<13, 12>>

ServiceKinds == {"none", "seven", "mixed", "gappy"}

\* the prepared DataFrame: None, or the columns and the rows (Date, Total
\* costs($), one cost per service column)
NoDf == [none |-> TRUE, columns |-> <<>>, rows |-> <<>>]

\* n consecutive days ending on lastDate with the given costs and the service
\* columns of the given kind; with gap > 0 the row of the gap-th day is
\* missing
MakeDfWith(shape, n, lastDate, gap, kind) ==
    LET costs == MakeSeries(shape, n)
        levels == ServiceLevels(kind)
        cols == SubSeq(ServiceColumns, 1, Len(levels))
        names == {cols[k] : k \in 1..Len(cols)}
        level(c) == levels[CHOOSE k \in 1..Len(cols) : cols[k] = c]
        all == [i \in 1..n |->
                   [Date |-> lastDate - n + i, Total |-> costs[i],
                    Costs |-> [c \in names |-> level(c) + ((i - 1) % 2)]]]
    IN  [none |-> FALSE,
         columns |-> <<"Date">> \o cols \o <<TotalColumn, "Month">>,
         rows |-> IF gap = 0 THEN all
                  ELSE SubSeq(all, 1, gap - 1) \o SubSeq(all, gap + 1, n)]

\* a DataFrame without service columns
MakeDf(shape, n, lastDate, gap) == MakeDfWith(shape, n, lastDate, gap, "none")

\* _prepare_series: set_index("Date").sort_index().asfreq("D").ffill()
RECURSIVE Ffill(_, _)
Ffill(vals, prev) ==
    IF Len(vals) = 0 THEN <<>>
    ELSE LET v == IF IsNaN(Head(vals)) THEN prev ELSE Head(vals)
         IN  <<v>> \o Ffill(Tail(vals), v)

\* series.index[-1] of the prepared series: the latest Date
LastDateOf(d) ==
    LET dates == {d.rows[i].Date : i \in 1..Len(d.rows)}
    IN  CHOOSE x \in dates : \A y \in dates : x >= y

PrepareSeries(d) ==
    LET dates == {d.rows[i].Date : i \in 1..Len(d.rows)}
        first == CHOOSE x \in dates : \A y \in dates : x <= y
        last == CHOOSE x \in dates : \A y \in dates : x >= y
        at(x) == IF x \in dates
                 THEN d.rows[CHOOSE i \in 1..Len(d.rows) : d.rows[i].Date = x].Total
                 ELSE NaN
    IN  Ffill([k \in 1..(last - first + 1) |-> at(first + k - 1)], NaN)

\* _prepare_series(df, column = col) for a service column
PrepareColumn(d, col) ==
    LET dates == {d.rows[i].Date : i \in 1..Len(d.rows)}
        first == CHOOSE x \in dates : \A y \in dates : x <= y
        last == CHOOSE x \in dates : \A y \in dates : x >= y
        at(x) == IF x \in dates
                 THEN d.rows[CHOOSE i \in 1..Len(d.rows) : d.rows[i].Date = x].Costs[col]
                 ELSE NaN
    IN  Ffill([k \in 1..(last - first + 1) |-> at(first + k - 1)], NaN)

\* DataProcessor.get_service_columns: the columns that end in "($)", the
\* total's excepted
GetServiceColumns(d) ==
    SelectSeq(d.columns, LAMBDA c : EndsWithDollar(c) /\ c # TotalColumn)

\* df[col].sum()
ColumnTotal(d, col) == SeqSum([i \in 1..Len(d.rows) |-> d.rows[i].Costs[col]])

\* Series.sum() and np.mean
SumOf(xs) == SeqSum(DropNa(xs))

MeanOf(xs) == IF Len(xs) = 0 THEN NaN ELSE SeqSum(xs) \div Len(xs)

\* df[service_cols].sum().sort_values(ascending = False): the orders of the
\* columns by descending total.  The sort is not a stable one, so columns
\* with equal totals may come out in either order.
RECURSIVE SortedOrders(_, _)
SortedOrders(d, cols) ==
    IF cols = {} THEN {<<>>}
    ELSE LET top == {c \in cols : \A e \in cols : ColumnTotal(d, c) >= ColumnTotal(d, e)}
         IN  UNION {{<<c>> \o rest : rest \in SortedOrders(d, cols \ {c})} : c \in top}

\* a selection that keeps one column too many
HeadOneMore(order) == SubSeq(order, 1, Min(TOP_SERVICES_COUNT + 1, Len(order)))

\* .head(TOP_SERVICES_COUNT)
Head6(order) == SubSeq(order, 1, Min(TOP_SERVICES_COUNT, Len(order)))

(* ------------------------------ calendar ------------------------------ *)

\* Dates are day ordinals; day 1 is 1 January 2023.
IsLeap(y) == (y % 4 = 0 /\ y % 100 # 0) \/ y % 400 = 0

MonthDays(y, m) ==
    IF m = 2 THEN (IF IsLeap(y) THEN 29 ELSE 28)
    ELSE IF m \in {4, 6, 9, 11} THEN 30 ELSE 31

RECURSIVE DateFrom(_, _, _)
DateFrom(ord, y, m) ==
    IF ord <= MonthDays(y, m) THEN [year |-> y, month |-> m, day |-> ord]
    ELSE IF m = 12 THEN DateFrom(ord - MonthDays(y, m), y + 1, 1)
    ELSE DateFrom(ord - MonthDays(y, m), y, m + 1)

\* Timestamp.date(): year, month and day of a day ordinal
DateOf(ord) == DateFrom(ord, 2023, 1)

RECURSIVE OrdinalFrom(_, _, _, _)
OrdinalFrom(y0, m0, y, m) ==
    IF y0 = y /\ m0 = m THEN 0
    ELSE IF m0 = 12 THEN MonthDays(y0, m0) + OrdinalFrom(y0 + 1, 1, y, m)
    ELSE MonthDays(y0, m0) + OrdinalFrom(y0, m0 + 1, y, m)

\* date(y, m, d) as a day ordinal
Ordinal(y, m, d) == OrdinalFrom(2023, 1, y, m) + d

\* days_in_month: the day number of the day before the first of the month
\* after today's, December apart
DaysInMonth(t) ==
    LET td == DateOf(t)
        firstNext == IF td.month < DECEMBER_MONTH
                     THEN Ordinal(td.year, td.month + 1, 1)
                     ELSE Ordinal(td.year + 1, 1, 1)
    IN  DateOf(firstNext - 1).day

\* df[df["Month"] == current_month]["Total costs($)"].sum(): the rows of the
\* latest date's year and month
CurrentMonthTotal(d) ==
    LET last == DateOf(LastDateOf(d))
        inMonth(i) == /\ DateOf(d.rows[i].Date).year = last.year
                      /\ DateOf(d.rows[i].Date).month = last.month
    IN  SeqSum([i \in 1..Len(d.rows) |-> IF inMonth(i) THEN d.rows[i].Total ELSE 0])

(* ------------------------------- state -------------------------------- *)

VARIABLES
    caller,          \* the entry point that is running
    pc,              \* the position in it
    df,              \* run_cost_forecasting's argument
    series,          \* the series under analysis
    lastDate,        \* series.index[-1], a day ordinal
    horizon,         \* config.forecast_horizon
    confLevel,       \* config.forecast_confidence_level, in percent
    models,          \* the list of models under selection
    lib,             \* what the libraries did on each input seen so far
    calls,           \* every fit_and_forecast call made, oldest first
    results,         \* select_best_model's list of (model, metrics)
    evalIdx,         \* select_best_model's loop position
    best_model,
    all_metrics,
    forecast_result,
    fbIdx,           \* the fallback loop's position
    forecasts,       \* the point forecasts at the reporting horizons
    ranges,          \* their +/- ranges
    output,          \* what the entry point returned
    top_services,    \* the service columns of the per-service loop, in order
    svcIdx,          \* the per-service loop's position
    service_forecasts,   \* service name -> forecast entry
    printed,         \* the per-service lines of the printed report
    today,           \* the evaluation date read for the monthly projection
    projection       \* the printed monthly projection, if any

vars == <<caller, pc, df, series, lastDate, horizon, confLevel, models, lib, calls,
          results, evalIdx, best_model, all_metrics, forecast_result, fbIdx,
          forecasts, ranges, output, top_services, svcIdx, service_forecasts,
          printed, today, projection>>

\* the state of the per-service loop and of the monthly projection
svcVars == <<top_services, svcIdx, service_forecasts, printed, today, projection>>

NoProjection == [produced |-> FALSE]

\* service_forecasts = {}
NoForecasts == [x \in {} |-> 0]

\* before the per-service loop and the projection
InitServices ==
    /\ top_services = <<>>
    /\ svcIdx = 1
    /\ service_forecasts = NoForecasts
    /\ printed = <<>>
    /\ today = 0
    /\ projection = NoProjection

Lens == 0..MaxLen

\* the lengths around the models' thresholds
RunLens == {n \in Lens : n >= 6 /\ (n % 7 \in {0, 6} \/ n = MaxLen)}

Pending == [kind |-> "pending"]

EmptyLib == [k \in {} |-> NoOracle]

\* the library is a function of its input: a repeated call finds the first
\* call's outcome, and a call stopped by the length test never reaches it
OracleOf(key, m, s, o) ==
    IF Len(s) < MinDataPoints(m) THEN o = NoOracle
    ELSE IF key \in DOMAIN lib THEN o = lib[key]
    ELSE o \in OraclesFor(m)

Remember(key, m, s, o) ==
    IF Len(s) < MinDataPoints(m) \/ key \in DOMAIN lib THEN lib
    ELSE lib @@ (key :> o)

Logged(c, result) ==
    Append(calls, [tag |-> c.tag, model |-> c.model, series |-> c.series,
                   lastDate |-> c.lastDate, horizon |-> c.horizon, cl |-> c.cl,
                   ok |-> result.ok, attempted |-> result.attempted])

\* a call on the series the backtest trained on
FullCallOnTrain(m) ==
    [tag |-> "full", model |-> m, series |-> TrainSeries(series), lastDate |-> lastDate,
     horizon |-> horizon, cl |-> confLevel]

\* the call run_cost_forecasting and _forecast_service make on a whole series
FullCall(m) ==
    [tag |-> "full", model |-> m, series |-> series, lastDate |-> lastDate,
     horizon |-> horizon, cl |-> confLevel]

(* ------------------------- a model called alone ----------------------- *)

InitModels ==
    /\ caller = "fit_and_forecast"
    /\ pc = "call"
    /\ df = NoDf
    /\ \E shape \in Shapes, n \in Lens : series = MakeSeries(shape, n)
    /\ lastDate \in LastDates
    /\ horizon \in Horizons
    /\ confLevel \in ConfLevels
    /\ models \in {<<m>> : m \in ModelNames}
    /\ lib = EmptyLib
    /\ calls = <<>>
    /\ results = <<>>
    /\ evalIdx = 1
    /\ best_model = ""
    /\ all_metrics = <<>>
    /\ forecast_result = NoneEarly
    /\ fbIdx = 1
    /\ forecasts = <<>>
    /\ ranges = <<>>
    /\ output = Pending
    /\ InitServices

\* models[0].fit_and_forecast(series, horizon, confidence_level)
Fit ==
    /\ caller = "fit_and_forecast"
    /\ pc = "call"
    /\ \E o \in Oracles :
        LET c == [FullCall(models[1]) EXCEPT !.tag = "unit"]
            key == <<c.model, c.tag>>
            result == CallFit(c, o)
        IN  /\ OracleOf(key, c.model, c.series, o)
            /\ lib' = Remember(key, c.model, c.series, o)
            /\ forecast_result' = result
            /\ calls' = Logged(c, result)
    /\ pc' = "done"
    /\ UNCHANGED <<caller, df, series, lastDate, horizon, confLevel, models, results,
                   evalIdx, best_model, all_metrics, fbIdx, forecasts, ranges, output>>
    /\ UNCHANGED svcVars

NextModels == Fit

SpecModels == InitModels /\ [][NextModels]_vars

(* -------------------------- select_best_model ------------------------- *)

InitTracker ==
    /\ caller = "select_best_model"
    /\ pc = "select"
    /\ df = NoDf
    /\ \E shape \in Shapes, n \in Lens : series = MakeSeries(shape, n)
    /\ lastDate \in LastDates
    /\ horizon = MaxHorizon
    /\ confLevel = BACKTEST_CONFIDENCE
    /\ models \in ModelLists
    /\ lib = EmptyLib
    /\ calls = <<>>
    /\ results = <<>>
    /\ evalIdx = 1
    /\ best_model = ""
    /\ all_metrics = <<>>
    /\ forecast_result = NoneEarly
    /\ fbIdx = 1
    /\ forecasts = <<>>
    /\ ranges = <<>>
    /\ output = Pending
    /\ InitServices

\* one turn of select_best_model's loop: evaluate_model(model, series), and
\* the pair is appended when there are metrics
EvalStep ==
    /\ pc = "select"
    /\ evalIdx <= Len(models)
    /\ LET m == models[evalIdx]
           cs == EvaluateCalls(m, series, lastDate)
       IN  \E o \in Oracles :
             /\ IF Len(cs) = 0 THEN o = NoOracle
                ELSE OracleOf(<<m, "train">>, m, cs[1].series, o)
             /\ lib' = IF Len(cs) = 0 THEN lib
                       ELSE Remember(<<m, "train">>, m, cs[1].series, o)
             /\ calls' = IF Len(cs) = 0 THEN calls ELSE Logged(cs[1], CallFit(cs[1], o))
             /\ LET metrics == EvaluateModel(m, series, lastDate, o)
                IN  results' = IF metrics.ok
                               THEN Append(results, [model |-> m, metrics |-> metrics])
                               ELSE results
    /\ evalIdx' = evalIdx + 1
    /\ UNCHANGED <<caller, pc, df, series, lastDate, horizon, confLevel, models,
                   best_model, all_metrics, forecast_result, fbIdx, forecasts,
                   ranges, output>>
    /\ UNCHANGED svcVars

\* select_best_model after the loop: the fallback, or the sort and the pick
SelectFinish ==
    /\ pc = "select"
    /\ evalIdx > Len(models)
    /\ LET sel == SelectBest(models, series, results)
       IN  /\ best_model' = sel.best_model
           /\ all_metrics' = sel.all_metrics
    /\ IF caller = "select_best_model"
       THEN pc' = "done" /\ output' = [kind |-> "selection"]
       ELSE pc' = "refit" /\ output' = output
    /\ UNCHANGED <<caller, df, series, lastDate, horizon, confLevel, models, lib, calls,
                   results, evalIdx, forecast_result, fbIdx, forecasts, ranges>>
    /\ UNCHANGED svcVars

NextTracker == EvalStep \/ SelectFinish

SpecTracker == InitTracker /\ [][NextTracker]_vars

(* ------------------------- run_cost_forecasting ----------------------- *)

ReportDays == {1, 7, 14, 30}

RunShapes == {"linear", "zerotail"}

RunDates == {31}

\* the runs with service columns: seven services on a week that ends on 14
\* February 2023, three on two weeks that end on 6 December 2023, and two
\* on a week of February 2024 with a missing day
ServiceRuns ==
    {[df |-> MakeDfWith("linear", 7, 45, 0, "seven"), horizon |-> 7, confLevel |-> 90],
     [df |-> MakeDfWith("linear", 14, 340, 0, "mixed"), horizon |-> 7, confLevel |-> 90],
     [df |-> MakeDfWith("linear", 8, 410, 2, "gappy"), horizon |-> 7, confLevel |-> 90]}

\* the runs without service columns: every length, with and without a missing day, at a one-week
\* horizon and a 90% level; every horizon and level on a short and on a long
\* series; and a week that ends on 24 February 2023 at the shortest and the
\* longest horizon
RunInputs ==
    {[df |-> NoDf, horizon |-> 7, confLevel |-> 90]}
    \cup {[df |-> MakeDf(shape, n, ld, gap), horizon |-> 7, confLevel |-> 90] :
            shape \in RunShapes, n \in RunLens, ld \in RunDates, gap \in {0, 2}}
    \cup {[df |-> MakeDf("linear", n, ld, 0), horizon |-> h, confLevel |-> cl] :
            n \in {7, 28}, ld \in RunDates, h \in Horizons, cl \in ConfLevels}
    \cup ServiceRuns
    \cup {[df |-> MakeDf("linear", 7, 55, 0), horizon |-> h, confLevel |-> 95] :
            h \in {1, MaxHorizon}}

Init ==
    /\ caller = "run_cost_forecasting"
    /\ pc = "start"
    /\ \E in \in RunInputs :
        /\ df = in.df
        /\ horizon = in.horizon
        /\ confLevel = in.confLevel
    /\ series = <<>>
    /\ lastDate = 0
    /\ models = <<>>
    /\ lib = EmptyLib
    /\ calls = <<>>
    /\ results = <<>>
    /\ evalIdx = 1
    /\ best_model = ""
    /\ all_metrics = <<>>
    /\ forecast_result = NoneEarly
    /\ fbIdx = 1
    /\ forecasts = <<>>
    /\ ranges = <<>>
    /\ output = Pending
    /\ InitServices

\* the entry test, _prepare_series and _get_all_models
Start ==
    /\ pc = "start"
    /\ IF df.none \/ Len(df.rows) < MIN_DAYS_FOR_FORECASTING
       THEN /\ output' = [kind |-> "None"]
            /\ pc' = "done"
            /\ UNCHANGED <<series, lastDate, models>>
       ELSE /\ series' = PrepareSeries(df)
            /\ lastDate' = LastDateOf(df)
            /\ models' = GetAllModels
            /\ pc' = "select"
            /\ output' = output
    /\ UNCHANGED <<caller, df, horizon, confLevel, lib, calls, results, evalIdx,
                   best_model, all_metrics, forecast_result, fbIdx, forecasts, ranges>>
    /\ UNCHANGED svcVars

\* a fit_and_forecast call on the whole series at the configured horizon and
\* confidence level
FitFull(m, result) ==
    \E o \in Oracles :
        LET c == FullCall(m)
            key == <<m, "full">>
        IN  /\ OracleOf(key, m, c.series, o)
            /\ lib' = Remember(key, m, c.series, o)
            /\ result = CallFit(c, o)
            /\ calls' = Logged(c, result)

ResultsOf(m) ==
    {CallFit(FullCall(m), o) : o \in Oracles}

\* the winner is fitted on the whole series
Refit ==
    /\ pc = "refit"
    /\ \E result \in ResultsOf(best_model) :
        /\ FitFull(best_model, result)
        /\ forecast_result' = result
        /\ pc' = IF result.ok THEN "report" ELSE "fallback"
    /\ fbIdx' = 1
    /\ UNCHANGED <<caller, df, series, lastDate, horizon, confLevel, models, results,
                   evalIdx, best_model, all_metrics, forecasts, ranges, output>>
    /\ UNCHANGED svcVars

\* a fallback loop without its break: it runs on after a success
FallbackStepNoBreak ==
    /\ pc = "fallback"
    /\ fbIdx <= Len(models)
    /\ \E result \in ResultsOf(models[fbIdx]) :
        /\ FitFull(models[fbIdx], result)
        /\ forecast_result' = result
        /\ IF fbIdx < Len(models)
           THEN pc' = "fallback" /\ output' = output
           ELSE IF result.ok
           THEN pc' = "report" /\ output' = output
           ELSE /\ pc' = "done"
                /\ output' = [kind |-> "empty", best_model |-> best_model,
                              forecasts |-> <<>>]
    /\ fbIdx' = fbIdx + 1
    /\ UNCHANGED <<caller, df, series, lastDate, horizon, confLevel, models, results,
                   evalIdx, best_model, all_metrics, forecasts, ranges>>
    /\ UNCHANGED svcVars

\* one turn of the fallback loop over models; after the last turn without a
\* result the run returns the empty forecast
FallbackStep ==
    /\ pc = "fallback"
    /\ fbIdx <= Len(models)
    /\ \E result \in ResultsOf(models[fbIdx]) :
        /\ FitFull(models[fbIdx], result)
        /\ forecast_result' = result
        /\ IF result.ok
           THEN pc' = "report" /\ output' = output
           ELSE IF fbIdx < Len(models)
           THEN pc' = "fallback" /\ output' = output
           ELSE /\ pc' = "done"
                /\ output' = [kind |-> "empty", best_model |-> best_model,
                              forecasts |-> <<>>]
    /\ fbIdx' = fbIdx + 1
    /\ UNCHANGED <<caller, df, series, lastDate, horizon, confLevel, models, results,
                   evalIdx, best_model, all_metrics, forecasts, ranges>>
    /\ UNCHANGED svcVars

\* the forecast reported for `days` ahead
PointForecast(result, days) ==
    IF days <= horizon THEN result.forecast_values[days]
    ELSE result.forecast_values[Len(result.forecast_values)]

\* a range beyond the horizon at the configured confidence level
PointRangeAtLevel(result, days) ==
    IF days <= horizon
    THEN LET w == FSub(result.upper_ci[days], result.lower_ci[days])
         IN  IF IsNaN(w) THEN NaN ELSE w \div 2
    ELSE IF IsNaN(result.residual_std) THEN NaN
         ELSE (result.residual_std * ZMilli(confLevel)) \div 1000

\* its +/- range: half the interval inside the horizon, 1.96 residual
\* standard deviations beyond it
PointRange(result, days) ==
    IF days <= horizon
    THEN LET w == FSub(result.upper_ci[days], result.lower_ci[days])
         IN  IF IsNaN(w) THEN NaN ELSE w \div 2
    ELSE IF IsNaN(result.residual_std) THEN NaN
         ELSE (result.residual_std * 1960) \div 1000

\* the forecasts at the reporting horizons; forecast_values[-1] of an empty
\* array is an IndexError, which nothing catches
Report ==
    /\ pc = "report"
    /\ IF \E d \in ReportDays : d > horizon /\ Len(forecast_result.forecast_values) = 0
       THEN /\ output' = [kind |-> "raised"]
            /\ pc' = "done"
            /\ UNCHANGED <<forecasts, ranges>>
       ELSE /\ forecasts' = [d \in ReportDays |-> PointForecast(forecast_result, d)]
            /\ ranges' = [d \in ReportDays |-> PointRange(forecast_result, d)]
            /\ pc' = "services"
            /\ output' = output
    /\ UNCHANGED <<caller, df, series, lastDate, horizon, confLevel, models, lib, calls,
                   results, evalIdx, best_model, all_metrics, forecast_result, fbIdx>>
    /\ UNCHANGED svcVars

(* per-service forecasts *)

\* the services on whose series the library is let fail; on the others it
\* returns its first candidate fit
OraclesForService(col, m) ==
    IF col \in {"svc1($)", "svc2($)"} THEN OraclesFor(m) ELSE {NoOracle}

\* a loop over the models that goes on after a success
RECURSIVE ServiceOutcomesAll(_, _, _)
ServiceOutcomesAll(col, s, i) ==
    IF i > Len(GetAllModels) THEN {<<>>}
    ELSE LET m == GetAllModels[i]
             os == IF Len(s) < MinDataPoints(m) THEN {NoOracle}
                   ELSE OraclesForService(col, m)
         IN  UNION {{<<o>> \o rest : rest \in ServiceOutcomesAll(col, s, i + 1)} : o \in os}

\* _forecast_service's loop from the i-th model on: what the library does on
\* each call made.  The loop returns at the first result, so the last call
\* of a sequence is the only one that can have succeeded.
RECURSIVE ServiceOutcomes(_, _, _)
ServiceOutcomes(col, s, i) ==
    IF i > Len(GetAllModels) THEN {<<>>}
    ELSE LET m == GetAllModels[i]
             os == IF Len(s) < MinDataPoints(m) THEN {NoOracle}
                   ELSE OraclesForService(col, m)
         IN  UNION {IF FitAndForecast(m, s, lastDate, horizon, confLevel, o).ok
                    THEN {<<o>>}
                    ELSE {<<o>> \o rest : rest \in ServiceOutcomes(col, s, i + 1)} :
                    o \in os}

\* the k-th call of _forecast_service and its result
ServiceCall(col, s, k) ==
    [tag |-> col, model |-> GetAllModels[k], series |-> s, lastDate |-> lastDate,
     horizon |-> horizon, cl |-> confLevel]

ServiceResult(col, s, os, k) == CallFit(ServiceCall(col, s, k), os[k])

\* what _forecast_service returns: None under the cost threshold, else the
\* result of the last call made (None when every model failed)
ForecastService(col, s, os) ==
    IF Len(os) = 0 THEN NoneEarly ELSE ServiceResult(col, s, os, Len(os))

\* d.strftime("%Y-%m-%d")
StrfTime(ord) == DateOf(ord)

\* the entry of service_forecasts for a result
ServiceEntry(result) ==
    [forecast_values |-> result.forecast_values,
     forecast_dates |-> [k \in 1..Len(result.forecast_dates) |->
                            StrfTime(result.forecast_dates[k])],
     lower_ci |-> result.lower_ci,
     upper_ci |-> result.upper_ci,
     model |-> result.model_name]

\* the line printed for a service: its mean forecast and the change against
\* the mean of its last 7 rows (hundredths of a percent), or the marker
ServiceLine(d, col, result) ==
    IF result.ok
    THEN LET avg_forecast == MeanOf(result.forecast_values)
             n == Len(d.rows)
             last7 == [k \in 1..Min(7, n) |-> d.rows[n - Min(7, n) + k].Costs[col]]
             current_avg == MeanOf(last7)
             floor == IF current_avg < 1 THEN 1 ELSE current_avg
         IN  [service |-> ServiceName(col), marker |-> "forecast",
              avg_forecast |-> avg_forecast,
              change_pct |-> IF IsNaN(avg_forecast) THEN NaN
                             ELSE ((avg_forecast - current_avg) * 10000) \div floor]
    ELSE [service |-> ServiceName(col), marker |-> "insufficient data"]

\* service_cols, service_totals and top_services
TopServices ==
    /\ pc = "services"
    /\ LET service_cols == GetServiceColumns(df)
       IN  IF Len(service_cols) = 0 THEN top_services' = <<>>
           ELSE \E order \in SortedOrders(df, {service_cols[k] : k \in 1..Len(service_cols)}) :
                    top_services' = Head6(order)
    /\ svcIdx' = 1
    /\ service_forecasts' = NoForecasts
    /\ pc' = "service"
    /\ UNCHANGED <<caller, df, series, lastDate, horizon, confLevel, models, lib, calls,
                   results, evalIdx, best_model, all_metrics, forecast_result, fbIdx,
                   forecasts, ranges, output, printed, today, projection>>

\* a loop that stops at the first service without a forecast
NextServiceStop(result) == IF result.ok THEN svcIdx + 1 ELSE Len(top_services) + 1

\* the for loop goes on to the next service whatever the result
NextService(result) == svcIdx + 1

\* one turn of the per-service loop: _forecast_service and the entry or the
\* "(insufficient data)" line
ServiceStep ==
    /\ pc = "service"
    /\ svcIdx <= Len(top_services)
    /\ LET col == top_services[svcIdx]
           s == PrepareColumn(df, col)
           outcomes == IF SumOf(s) < min_service_cost_for_analysis THEN {<<>>}
                       ELSE ServiceOutcomes(col, s, 1)
       IN  \E os \in outcomes :
             LET svc_result == ForecastService(col, s, os)
                 reached == {k \in 1..Len(os) : Len(s) >= MinDataPoints(GetAllModels[k])}
                 keys == {<<GetAllModels[k], col>> : k \in reached}
                 at(key) == CHOOSE k \in reached : GetAllModels[k] = key[1]
             IN  /\ calls' = calls \o
                        [k \in 1..Len(os) |->
                            LET c == ServiceCall(col, s, k)
                                r == ServiceResult(col, s, os, k)
                            IN  [tag |-> c.tag, model |-> c.model, series |-> c.series,
                                 lastDate |-> c.lastDate, horizon |-> c.horizon,
                                 cl |-> c.cl, ok |-> r.ok, attempted |-> r.attempted]]
                 /\ lib' = lib @@ [key \in keys |-> os[at(key)]]
                 /\ service_forecasts' =
                        IF svc_result.ok
                        THEN [n \in DOMAIN service_forecasts \cup {ServiceName(col)} |->
                                 IF n = ServiceName(col) THEN ServiceEntry(svc_result)
                                 ELSE service_forecasts[n]]
                        ELSE service_forecasts
                 /\ printed' = Append(printed, ServiceLine(df, col, svc_result))
                 /\ svcIdx' = NextService(svc_result)
    /\ UNCHANGED <<caller, pc, df, series, lastDate, horizon, confLevel, models,
                   results, evalIdx, best_model, all_metrics, forecast_result, fbIdx,
                   forecasts, ranges, output, top_services, today, projection>>

(* monthly projection *)

\* the evaluation dates tried for a series that ends on ld: the same day and,
\* unless that is the last day of its month, the day after, 31 days later
\* and 365 days later
Todays(ld) ==
    IF DateOf(ld).day = MonthDays(DateOf(ld).year, DateOf(ld).month) THEN {ld}
    ELSE {ld, ld + 1, ld + 31, ld + 365}

\* a test of the month alone
SameMonthAnyYear(a, b) == DateOf(a).month = DateOf(b).month

\* the latest date and today lie in the same month of the same year
SameMonth(a, b) ==
    DateOf(a).month = DateOf(b).month /\ DateOf(a).year = DateOf(b).year

\* a projection over the days that were averaged only
ProjectedTotalUsedDays(current_month_total, forecast_values, days_remaining, h) ==
    LET forecast_days_to_use == Min(days_remaining, h)
        used == SubSeq(forecast_values, 1, Min(forecast_days_to_use, Len(forecast_values)))
        daily_forecast == MeanOf(used)
    IN  IF IsNaN(daily_forecast) THEN NaN
        ELSE current_month_total + daily_forecast * forecast_days_to_use

\* projected_month_total = current_month_total + daily_forecast * days_remaining
ProjectedTotal(current_month_total, forecast_values, days_remaining, h) ==
    LET forecast_days_to_use == Min(days_remaining, h)
        used == SubSeq(forecast_values, 1, Min(forecast_days_to_use, Len(forecast_values)))
        daily_forecast == MeanOf(used)
    IN  IF IsNaN(daily_forecast) THEN NaN
        ELSE current_month_total + daily_forecast * days_remaining

\* the monthly projection printed when today is t
Projection(d, result, h, t) ==
    LET last == LastDateOf(d)
        days_remaining == DaysInMonth(t) - DateOf(last).day
    IN  IF SameMonth(last, t) /\ days_remaining > 0
        THEN [produced |-> TRUE,
              current_month_total |-> CurrentMonthTotal(d),
              projected_month_total |->
                  ProjectedTotal(CurrentMonthTotal(d), result.forecast_values,
                                 days_remaining, h)]
        ELSE NoProjection

\* after the last service: today is read and the projection printed
MonthlyProjection ==
    /\ pc = "service"
    /\ svcIdx > Len(top_services)
    /\ \E t \in Todays(lastDate) :
        /\ today' = t
        /\ projection' = Projection(df, forecast_result, horizon, t)
    /\ pc' = "return"
    /\ UNCHANGED <<caller, df, series, lastDate, horizon, confLevel, models, lib, calls,
                   results, evalIdx, best_model, all_metrics, forecast_result, fbIdx,
                   forecasts, ranges, output, top_services, svcIdx, service_forecasts,
                   printed>>

\* the returned dictionary
Return ==
    /\ pc = "return"
    /\ output' = [kind |-> "result",
                  best_model |-> best_model,
                  forecasts |-> forecasts,
                  forecast_series |->
                      [dates |-> [k \in 1..Len(forecast_result.forecast_dates) |->
                                     StrfTime(forecast_result.forecast_dates[k])],
                       values |-> forecast_result.forecast_values,
                       lower_ci |-> forecast_result.lower_ci,
                       upper_ci |-> forecast_result.upper_ci],
                  service_forecasts |-> service_forecasts,
                  historical_dates |-> [k \in 1..Len(series) |->
                                          StrfTime(lastDate - Len(series) + k)],
                  historical_values |-> series,
                  accuracy_metrics |-> all_metrics]
    /\ pc' = "done"
    /\ UNCHANGED <<caller, df, series, lastDate, horizon, confLevel, models, lib, calls,
                   results, evalIdx, best_model, all_metrics, forecast_result, fbIdx,
                   forecasts, ranges>>
    /\ UNCHANGED svcVars

Next ==
    \/ Start
    \/ EvalStep
    \/ SelectFinish
    \/ Refit
    \/ FallbackStep
    \/ Report
    \/ TopServices
    \/ ServiceStep
    \/ MonthlyProjection
    \/ Return

Spec == Init /\ [][Next]_vars

(* ======================= properties: selection ======================== *)

\* the backtest calls that returned a forecast, i.e. the evaluations that
\* yielded metrics
OkBacktests == {j \in 1..Len(calls) : calls[j].tag = "train" /\ calls[j].ok}

Selected == caller = "select_best_model" /\ pc = "done"

PosIn(ms, m) == CHOOSE p \in 1..Len(ms) : ms[p] = m

\* C1: when at least one model yields backtest metrics, select_best_model
\* returns a model whose MAPE is the minimum over the models that yielded
\* metrics, and a metrics list with exactly one entry per successfully
\* evaluated model, in non-decreasing MAPE order.
C1_BestHasMinimumMape ==
    (Selected /\ OkBacktests # {}) =>
        /\ Len(all_metrics) = Cardinality(OkBacktests)
        /\ \A j \in OkBacktests :
             Cardinality({i \in 1..Len(all_metrics) :
                            all_metrics[i].model_name = calls[j].model}) = 1
        /\ \A i, k \in 1..Len(all_metrics) :
             i < k => all_metrics[i].mape <= all_metrics[k].mape
        /\ \E i \in 1..Len(all_metrics) :
             /\ all_metrics[i].model_name = best_model
             /\ \A k \in 1..Len(all_metrics) :
                  all_metrics[i].mape <= all_metrics[k].mape

\* a selection among three or more models with different errors, won by a
\* model that is not the first of the list
C1_Witness ==
    /\ Selected
    /\ Len(all_metrics) >= 3
    /\ all_metrics[1].mape < all_metrics[2].mape
    /\ all_metrics[2].mape < all_metrics[3].mape
    /\ best_model # models[1]

\* C2: models with equal MAPE (all infinite included) keep their relative
\* order from the input list, and the returned model is the first-listed of
\* the models with the lowest MAPE.
C2_TiesKeepInputOrder ==
    Selected =>
        /\ \A i, k \in 1..Len(all_metrics) :
             (i < k /\ all_metrics[i].mape = all_metrics[k].mape) =>
                 PosIn(models, all_metrics[i].model_name)
                     < PosIn(models, all_metrics[k].model_name)
        /\ all_metrics # <<>> =>
             \A k \in 1..Len(all_metrics) :
                 all_metrics[k].mape = all_metrics[1].mape =>
                     PosIn(models, best_model)
                         <= PosIn(models, all_metrics[k].model_name)

\* all models tie at an infinite MAPE, in a list that is not in declaration
\* order, and the first-listed model is returned
C2_Witness ==
    /\ Selected
    /\ models = <<PT, WMA, SD, HW>>
    /\ Len(all_metrics) = 4
    /\ \A k \in 1..4 : all_metrics[k].mape = Inf
    /\ best_model = PT

\* C3: with no backtest metrics, select_best_model returns the first model in
\* input order whose min_data_points is at most len(series), or the last
\* model of the list if there is none, with an empty metrics list, and it
\* returns rather than raises.
C3_FallbackWithoutMetrics ==
    (Selected /\ OkBacktests = {}) =>
        /\ all_metrics = <<>>
        /\ output.kind = "selection"
        /\ IF \E p \in 1..Len(models) : MinDataPoints(models[p]) <= Len(series)
           THEN \E p \in 1..Len(models) :
                  /\ best_model = models[p]
                  /\ MinDataPoints(models[p]) <= Len(series)
                  /\ \A q \in 1..(p - 1) : MinDataPoints(models[q]) > Len(series)
           ELSE best_model = models[Len(models)]

\* no model of a list of four can fit the series, and the last one is returned
C3_Witness ==
    /\ Selected
    /\ OkBacktests = {}
    /\ Len(models) = 4
    /\ \A p \in 1..4 : MinDataPoints(models[p]) > Len(series)
    /\ best_model = models[4]

\* C4: evaluate_model returns no result and does not call fit_and_forecast
\* when len(series) < 7 + min_data_points, and calls it when
\* len(series) >= 7 + min_data_points.
C4_BacktestNeedsHoldoutPlusMinimum ==
    caller = "select_best_model" =>
        \A p \in 1..Len(models) :
            p < evalIdx =>
                LET m == models[p]
                    made == {j \in 1..Len(calls) : calls[j].model = m}
                IN  IF Len(series) < 7 + MinDataPoints(m)
                    THEN /\ made = {}
                         /\ \A i \in 1..Len(results) : results[i].model # m
                    ELSE Cardinality(made) = 1

\* a model evaluated on exactly 7 + min_data_points - 1 points: nothing was
\* called and nothing was collected
C4_Witness ==
    /\ caller = "select_best_model"
    /\ evalIdx = 2
    /\ Len(series) = 7 + MinDataPoints(models[1]) - 1
    /\ calls = <<>>
    /\ results = <<>>

(* ======================= properties: backtest ========================= *)

\* C5: the series evaluate_model hands to the model is the input series
\* without its last 7 observations, the request is for 7 steps at confidence
\* level 0.95 whatever the configured level, and the metrics compare the 7
\* forecasts position by position with the last 7 observations.
C5_NoLookAhead ==
    /\ \A j \in 1..Len(calls) :
         calls[j].tag = "train" =>
             /\ Len(calls[j].series) = Len(series) - 7
             /\ \A i \in 1..Len(calls[j].series) : calls[j].series[i] = series[i]
             /\ calls[j].lastDate = lastDate - 7
             /\ calls[j].horizon = 7
             /\ calls[j].cl = 95
    /\ pc = "refit" =>
         \A i \in 1..Len(results) :
             LET m == results[i].model
                 n == Len(series)
                 fit == FitAndForecast(m, SubSeq(series, 1, n - 7), lastDate - 7, 7, 95,
                                       lib[<<m, "train">>])
                 err == [k \in 1..7 |-> Abs(series[n - 7 + k] - fit.forecast_values[k])]
             IN  /\ Len(fit.forecast_values) = 7
                 /\ results[i].metrics.mae = SeqSum(err) \div 7

\* select_best_model has just returned in a run configured for a 90% level
\* and a horizon other than 7, with backtested models that missed
C5_Witness ==
    /\ caller = "run_cost_forecasting"
    /\ pc = "refit"
    /\ confLevel = 90
    /\ horizon = MaxHorizon
    /\ Len(results) >= 2
    /\ \E i \in 1..Len(results) : results[i].metrics.mae > 0

(* ===================== properties: a model alone ====================== *)

Fitted == caller = "fit_and_forecast" /\ pc = "done"

\* C6: below its minimum number of observations (Holt-Winters 14, Seasonal
\* Decomposition 21, Weighted Moving Average 7, Polynomial Trend 7) a model
\* returns the Failure value before any fitting computation, and an error
\* raised during fitting becomes the same Failure value.
C6_FailureIsReturned ==
    Fitted =>
        LET m == models[1]
            least == CASE m = HW -> 14 [] m = SD -> 21 [] m = WMA -> 7 [] m = PT -> 7
            key == <<m, "unit">>
        IN  /\ Len(series) < least =>
                /\ ~forecast_result.ok
                /\ ~forecast_result.attempted
                /\ key \notin DOMAIN lib
            /\ (key \in DOMAIN lib /\ lib[key].raises) => ~forecast_result.ok
            /\ Len(calls) = 1

\* the seasonal decomposition given 20 observations
C6_Witness ==
    /\ Fitted
    /\ models[1] = SD
    /\ Len(series) = 20
    /\ ~forecast_result.ok

\* C7: in every ForecastResult the arrays forecast_values, forecast_dates,
\* lower_ci and upper_ci have length exactly the requested horizon.
C7_ArraysHaveHorizonLength ==
    (Fitted /\ forecast_result.ok) =>
        /\ Len(forecast_result.forecast_values) = horizon
        /\ Len(forecast_result.forecast_dates) = horizon
        /\ Len(forecast_result.lower_ci) = horizon
        /\ Len(forecast_result.upper_ci) = horizon

\* a result at the largest horizon
C7_Witness ==
    /\ Fitted
    /\ forecast_result.ok
    /\ horizon = MaxHorizon
    /\ Len(forecast_result.upper_ci) = MaxHorizon

\* C8: in every ForecastResult, lower_ci[i] <= forecast_values[i] <=
\* upper_ci[i] at every step i, Weighted Moving Average results on series of
\* 7 to 14 observations included.
C8_IntervalContainsForecast ==
    (Fitted /\ forecast_result.ok) =>
        \A i \in 1..Len(forecast_result.forecast_values) :
            /\ FLe(forecast_result.lower_ci[i], forecast_result.forecast_values[i])
            /\ FLe(forecast_result.forecast_values[i], forecast_result.upper_ci[i])

\* C9: forecast_dates[0] is the day after the input series' last date and
\* each later date is one day after the one before.
C9_DatesAreConsecutive ==
    (Fitted /\ forecast_result.ok) =>
        LET dates == forecast_result.forecast_dates
        IN  /\ Len(dates) >= 1 => dates[1] = lastDate + 1
            /\ \A k \in 1..(Len(dates) - 1) : dates[k + 1] = dates[k] + 1

\* a result of several days
C9_Witness ==
    /\ Fitted
    /\ forecast_result.ok
    /\ Len(forecast_result.forecast_dates) >= 7

(* ===================== properties: the whole run ====================== *)

\* the calls on the whole series, oldest first; the first is the re-fit of
\* the selected model
FullCalls == {j \in 1..Len(calls) : calls[j].tag = "full"}

RefitFailed ==
    /\ FullCalls # {}
    /\ ~calls[CHOOSE j \in FullCalls : \A k \in FullCalls : j <= k].ok

FailedOnFull(m) ==
    \E j \in FullCalls : calls[j].model = m /\ ~calls[j].ok

DeclarationPos(m) == PosIn(GetAllModels, m)

\* C10: if the re-fit of the selected model on the full series fails, the
\* remaining models are tried in declaration order and the production
\* forecast is that of the first one that succeeds; if every model fails the
\* run returns the empty-forecast result instead of raising.
C10_FallbackTakesFirstSuccess ==
    (caller = "run_cost_forecasting" /\ RefitFailed /\ pc # "fallback") =>
        IF forecast_result.ok
        THEN LET w == forecast_result.model_name
             IN  /\ w # best_model
                 /\ \A m \in ModelNames :
                      (m # best_model /\ DeclarationPos(m) < DeclarationPos(w))
                          => FailedOnFull(m)
                 /\ forecast_result =
                        FitAndForecast(w, series, lastDate, horizon, confLevel,
                                       lib[<<w, "full">>])
        ELSE /\ \A m \in ModelNames : FailedOnFull(m)
             /\ pc = "done"
             /\ output.kind = "empty"
             /\ output.forecasts = <<>>

\* the selected model and the first model in declaration order failed on the
\* full series, a later one supplied the forecast, and the run returned it
C10_Witness ==
    /\ caller = "run_cost_forecasting"
    /\ pc = "done"
    /\ RefitFailed
    /\ output.kind = "result"
    /\ FailedOnFull(HW)
    /\ best_model # HW
    /\ forecast_result.model_name \in {WMA, PT}
    /\ Len(series) >= 14

\* C11: within one run, once a model's fit_and_forecast on the full aggregate
\* series at the configured horizon and confidence level has failed, that
\* model is not invoked again on that series.
C11_NoRetryOnFullSeries ==
    caller = "run_cost_forecasting" =>
        \A j, k \in FullCalls :
            (j < k /\ calls[j].model = calls[k].model) => calls[j].ok

(* ================== properties: reporting horizons ==================== *)

Half(lower, upper) ==
    IF IsNaN(lower) \/ IsNaN(upper) THEN NaN ELSE (upper - lower) \div 2

\* C12: for each reporting horizon d in {1, 7, 14, 30}: if d <= horizon the
\* reported forecast is forecast_values[d-1] and the range is
\* (upper_ci[d-1] - lower_ci[d-1]) / 2; if d > horizon the reported forecast
\* is the last forecast value and the range is 1.96 * residual_std whatever d
\* and the configured confidence level, and no model is fitted for it.
C12_ReportingHorizons ==
    [][(pc = "report" /\ pc' = "services") =>
          /\ calls' = calls
          /\ forecast_result' = forecast_result
          /\ DOMAIN forecasts' = {1, 7, 14, 30}
          /\ \A d \in {1, 7, 14, 30} :
               LET r == forecast_result
               IN  IF d <= horizon
                   THEN /\ forecasts'[d] = r.forecast_values[d]
                        /\ ranges'[d] = Half(r.lower_ci[d], r.upper_ci[d])
                   ELSE /\ forecasts'[d] = r.forecast_values[horizon]
                        /\ ranges'[d] = IF IsNaN(r.residual_std) THEN NaN
                                        ELSE (r.residual_std * 1960) \div 1000]_vars

\* a report at a one-week horizon and a 90% level from residuals that vary:
\* the 14-day and the 30-day entries repeat the 7-day forecast with the same
\* range, which is not the 7-day range
C12_Witness ==
    /\ pc = "services"
    /\ horizon = 7
    /\ confLevel = 90
    /\ forecast_result.residual_std > 0
    /\ forecasts[30] = forecast_result.forecast_values[7]
    /\ forecasts[14] = forecasts[30]
    /\ ranges[14] = ranges[30]
    /\ ranges[30] = (forecast_result.residual_std * 1960) \div 1000
    /\ ranges[7] # ranges[30]

(* ================= properties: per-service forecasts ================== *)

\* the services whose turn of the loop is over
Processed == {top_services[p] : p \in 1..(svcIdx - 1)}

\* the calls made on the series of service column col, oldest first
ServiceCalls(col) == {j \in 1..Len(calls) : calls[j].tag = col}

FirstCall(col) == CHOOSE j \in ServiceCalls(col) : \A k \in ServiceCalls(col) : j <= k

LastCall(col) == CHOOSE j \in ServiceCalls(col) : \A k \in ServiceCalls(col) : j >= k

\* the run has reached the per-service loop
InServiceLoop ==
    /\ caller = "run_cost_forecasting"
    /\ pc \in {"service", "return"} \/ (pc = "done" /\ output.kind = "result")

\* C13: per-service forecasting runs no backtest: the four models are tried
\* in the order Holt-Winters, Seasonal Decomposition, Weighted Moving
\* Average, Polynomial Trend on the service's full series at the configured
\* horizon and confidence level, the result is that of the first model that
\* returns one, and no model is invoked after a success.
C13_FirstSuccessInFixedOrder ==
    InServiceLoop =>
        \A col \in Processed :
            LET js == ServiceCalls(col)
                n == Cardinality(js)
                name == ServiceName(col)
            IN  /\ n <= 4
                /\ js # {} =>
                     /\ js = FirstCall(col)..(FirstCall(col) + n - 1)
                     /\ \A k \in 1..n :
                          LET c == calls[FirstCall(col) + k - 1]
                          IN  /\ c.model = <<HW, SD, WMA, PT>>[k]
                              /\ c.series = PrepareColumn(df, col)
                              /\ c.horizon = horizon
                              /\ c.cl = confLevel
                              /\ k < n => ~c.ok
                     /\ ~calls[LastCall(col)].ok => n = 4
                /\ name \in DOMAIN service_forecasts
                     <=> (js # {} /\ calls[LastCall(col)].ok)
                /\ name \in DOMAIN service_forecasts =>
                     service_forecasts[name].model = calls[LastCall(col)].model

\* a service whose first model failed got its forecast from a later one, and
\* another service's model is not the model selected for the aggregate
C13_Witness ==
    /\ InServiceLoop
    /\ pc = "done"
    /\ \E col \in Processed :
         /\ Cardinality(ServiceCalls(col)) >= 2
         /\ calls[FirstCall(col)].attempted
         /\ ServiceName(col) \in DOMAIN service_forecasts
    /\ \E col \in Processed :
         /\ ServiceName(col) \in DOMAIN service_forecasts
         /\ service_forecasts[ServiceName(col)].model # best_model

\* the service columns of the DataFrame
AllServices == {GetServiceColumns(df)[k] : k \in 1..Len(GetServiceColumns(df))}

\* the services on whose series a model was run
FittedServices == {col \in AllServices : ServiceCalls(col) # {}}

LoopOver == InServiceLoop /\ svcIdx > Len(top_services)

\* C14 as stated: the services on which models are run are exactly the (up
\* to) 6 with the highest total cost among those whose total meets the
\* threshold: one below the threshold is never fitted, and one that meets it
\* is fitted whenever fewer than 6 threshold-meeting services have a larger
\* total.
C14_TopSixAmongThresholdMeeting ==
    LoopOver =>
        LET meets == {c \in AllServices : ColumnTotal(df, c) >= 100}
            larger(c) == {e \in meets : ColumnTotal(df, e) > ColumnTotal(df, c)}
        IN  /\ Cardinality(FittedServices) <= 6
            /\ FittedServices \subseteq meets
            /\ \A c \in meets : Cardinality(larger(c)) < 6 => c \in FittedServices

\* C14 as amended: models are run on at most 6 services; a service whose
\* gap-filled series sums to less than the threshold is never fitted; a
\* fitted service has fewer than 6 services with a larger column total; and
\* a service whose gap-filled series meets the threshold is fitted whenever
\* fewer than 6 other services have a column total at least as large.
C14_TopSixThenThreshold ==
    LoopOver =>
        LET sum(c) == SeqSum(DropNa(PrepareColumn(df, c)))
            larger(c) == {e \in AllServices : ColumnTotal(df, e) > ColumnTotal(df, c)}
            notSmaller(c) == {e \in AllServices \ {c} :
                                ColumnTotal(df, e) >= ColumnTotal(df, c)}
        IN  /\ Cardinality(FittedServices) <= 6
            /\ \A c \in FittedServices :
                 /\ sum(c) >= 100
                 /\ Cardinality(larger(c)) < 6
            /\ \A c \in AllServices :
                 (sum(c) >= 100 /\ Cardinality(notSmaller(c)) < 6)
                     => c \in FittedServices

\* seven services meet the threshold: six are fitted and the seventh, whose
\* total equals that of a fitted one, is not
C14_Witness ==
    /\ LoopOver
    /\ Cardinality(AllServices) = 7
    /\ Cardinality(FittedServices) = 6
    /\ \E c \in AllServices \ FittedServices :
         /\ SeqSum(DropNa(PrepareColumn(df, c))) >= 100
         /\ \E e \in FittedServices : ColumnTotal(df, e) = ColumnTotal(df, c)

\* the run returned its result dictionary
Returned == caller = "run_cost_forecasting" /\ pc = "done" /\ output.kind = "result"

\* C15: a selected service for which every model fails is not omitted from
\* the output: the per-service output has one entry, a forecast or an
\* "insufficient data" marker, for every selected service.
C15_EveryServiceHasAnEntry ==
    Returned =>
        \A col \in FittedServices :
            ServiceName(col) \in DOMAIN output.service_forecasts

\* C16: a service that fails every model leaves the aggregate forecast and
\* the entries of the other services as they are, and the loop goes on with
\* the next service; every entry is the entry of the service's own first
\* successful fit, and the returned dictionary carries these entries and the
\* aggregate forecast series.
C16_FailureStaysWithTheService ==
    /\ [][(pc = "service" /\ svcIdx <= Len(top_services)) =>
             /\ pc' = "service"
             /\ svcIdx' = svcIdx + 1
             /\ forecast_result' = forecast_result
             /\ forecasts' = forecasts
             /\ all_metrics' = all_metrics
             /\ \A n \in DOMAIN service_forecasts :
                  /\ n \in DOMAIN service_forecasts'
                  /\ service_forecasts'[n] = service_forecasts[n]]_vars
    /\ [](InServiceLoop =>
             \A col \in Processed :
                 ServiceName(col) \in DOMAIN service_forecasts =>
                     LET m == calls[LastCall(col)].model
                         fit == FitAndForecast(m, PrepareColumn(df, col), lastDate,
                                               horizon, confLevel, lib[<<m, col>>])
                         entry == service_forecasts[ServiceName(col)]
                     IN  /\ entry.forecast_values = fit.forecast_values
                         /\ entry.lower_ci = fit.lower_ci
                         /\ entry.upper_ci = fit.upper_ci
                         /\ entry.model = m)
    /\ [](Returned =>
             /\ output.service_forecasts = service_forecasts
             /\ output.forecast_series.values = forecast_result.forecast_values
             /\ output.forecast_series.lower_ci = forecast_result.lower_ci
             /\ output.forecast_series.upper_ci = forecast_result.upper_ci)

\* the first service of the loop failed all four models, a later one has its
\* forecast, and the run returned the aggregate forecast
C16_Witness ==
    /\ Returned
    /\ Len(top_services) >= 2
    /\ Cardinality(ServiceCalls(top_services[1])) = 4
    /\ ~calls[LastCall(top_services[1])].ok
    /\ \E p \in 2..Len(top_services) :
         ServiceName(top_services[p]) \in DOMAIN output.service_forecasts
    /\ Len(output.forecast_series.values) = 7

(* ================= properties: monthly projection ===================== *)

\* the projection step has run
Projected ==
    /\ caller = "run_cost_forecasting"
    /\ pc = "return" \/ (pc = "done" /\ output.kind = "result")

\* the number of days of the month of a date, and the days of that month
\* after the date
MonthLength(ord) == MonthDays(DateOf(ord).year, DateOf(ord).month)

DaysLeft(ord) == MonthLength(ord) - DateOf(ord).day

\* the sum of the rows of the DataFrame that lie in the month of its last date
MonthToDate ==
    LET first == lastDate - DateOf(lastDate).day + 1
        inMonth == {i \in 1..Len(df.rows) : df.rows[i].Date >= first}
    IN  SeqSum([i \in 1..Len(df.rows) |-> IF i \in inMonth THEN df.rows[i].Total ELSE 0])

\* C17: when a monthly projection is produced, projected total =
\* month-to-date total + days_remaining * mean(forecast_values[0 ..
\* min(days_remaining, horizon) - 1]) with days_remaining = days in the month
\* minus the day of the month of the last date; also when days_remaining
\* exceeds the horizon.
C17_ProjectedTotal ==
    (Projected /\ projection.produced) =>
        LET days_remaining == DaysLeft(lastDate)
            used == IF days_remaining < horizon THEN days_remaining ELSE horizon
            fv == forecast_result.forecast_values
        IN  /\ projection.current_month_total = MonthToDate
            /\ projection.projected_month_total =
                   MonthToDate
                   + days_remaining * (SeqSum([k \in 1..used |-> fv[k]]) \div used)

\* a projection from a series that began in the month before, with more days
\* left in the month than the horizon covers
C17_Witness ==
    /\ Projected
    /\ projection.produced
    /\ DaysLeft(lastDate) > horizon
    /\ projection.current_month_total < SeqSum(series)
    /\ projection.projected_month_total > projection.current_month_total

\* C18: a monthly projection is produced if and only if the last date lies
\* in the same calendar month and year as the evaluation date and
\* days_remaining > 0.
C18_ProjectionOnlyInCurrentMonth ==
    /\ projection.produced => Projected
    /\ Projected =>
         (projection.produced
            <=> /\ DateOf(lastDate).month = DateOf(today).month
                /\ DateOf(lastDate).year = DateOf(today).year
                /\ DaysLeft(lastDate) > 0)

\* the series ends on the last day of the current month and the run returned
\* without a projection
C18_Witness ==
    /\ Returned
    /\ today = lastDate
    /\ DaysLeft(lastDate) = 0
    /\ ~projection.produced

(* ================== properties: failure containment =================== *)

\* C19: run_cost_forecasting never aborts: for every prepared input and
\* every configured horizon, a horizon smaller than 1 included, and every
\* combination of model and service failures, the run returns an output
\* structure without raising.
C19_RunNeverRaises ==
    (caller = "run_cost_forecasting" /\ pc = "done") =>
        output.kind \in {"None", "empty", "result"}

\* C20: when every model fails on the aggregate series the run still
\* completes and its output reports the rest: the per-service forecasts (or
\* markers) of the selected services and the backtest accuracy metrics that
\* were computed.
C20_PartialResultsReported ==
    (/\ caller = "run_cost_forecasting"
     /\ pc = "done"
     /\ \A m \in ModelNames : FailedOnFull(m)
     /\ all_metrics # <<>>
     /\ AllServices # {})
        => /\ output.kind # "raised"
           /\ "accuracy_metrics" \in DOMAIN output
           /\ output.accuracy_metrics = all_metrics
           /\ "service_forecasts" \in DOMAIN output
           /\ \A col \in AllServices :
                (SeqSum(DropNa(PrepareColumn(df, col))) >= 100)
                    => ServiceName(col) \in DOMAIN output.service_forecasts

(* ================ properties: the production forecast ================= *)

\* the models of the backtest calls made so far, oldest first
BacktestedModels ==
    LET made == SelectSeq(calls, LAMBDA c : c.tag = "train")
    IN  [k \in 1..Len(made) |-> made[k].model]

\* C21: the production forecast comes from calling the selected model on the
\* entire prepared aggregate series (the 7 observations held out in the
\* backtest included) at the configured horizon and confidence level, and
\* the selection runs over exactly the four models in the order Holt-Winters,
\* Seasonal Decomposition, Weighted Moving Average, Polynomial Trend.
C21_RefitOnWholeSeries ==
    /\ []((caller = "run_cost_forecasting" /\ pc = "refit") =>
             /\ models = <<HW, SD, WMA, PT>>
             /\ evalIdx = 5
             /\ series = PrepareSeries(df)
             /\ BacktestedModels =
                    SelectSeq(<<HW, SD, WMA, PT>>,
                              LAMBDA m : Len(series) >= 7 + MinDataPoints(m))
             /\ \E p \in 1..4 : best_model = models[p])
    /\ [][(caller = "run_cost_forecasting" /\ pc = "refit") =>
             /\ Len(calls') = Len(calls) + 1
             /\ SubSeq(calls', 1, Len(calls)) = calls
             /\ LET c == calls'[Len(calls')]
                IN  /\ c.tag = "full"
                    /\ c.model = best_model
                    /\ c.series = PrepareSeries(df)
                    /\ c.horizon = horizon
                    /\ c.cl = confLevel
                    /\ c.ok =>
                         /\ pc' = "report"
                         /\ forecast_result'.model_name = best_model
                         /\ forecast_result'.confidence_level = confLevel
                         /\ Len(forecast_result'.forecast_values) = horizon
                         /\ Len(forecast_result'.fitted_values) = Len(PrepareSeries(df))
                         /\ forecast_result' =
                                FitAndForecast(best_model, PrepareSeries(df), lastDate,
                                               horizon, confLevel,
                                               lib'[<<best_model, "full">>])]_vars
    /\ []((Returned /\ ~RefitFailed) =>
             output.forecast_series.values
                 = FitAndForecast(best_model, PrepareSeries(df), lastDate, horizon,
                                  confLevel, lib[<<best_model, "full">>]).forecast_values)

\* a run at the longest horizon and a 90% level in which all four models were
\* backtested on 21 of the 28 observations and the winner's fit on all 28
\* was returned
C21_Witness ==
    /\ Returned
    /\ ~RefitFailed
    /\ Len(BacktestedModels) = 4
    /\ Len(series) = 28
    /\ horizon = MaxHorizon
    /\ confLevel = 90
    /\ Len(forecast_result.fitted_values) = 28
    /\ Len(output.forecast_series.values) = MaxHorizon

(* ================ properties: confidence intervals ==================== *)

\* C22: in every ForecastResult of every model the interval is symmetric
\* about the forecast and its half-width at step k = 1..horizon equals
\* residual_std * z(confidence_level) * sqrt(k); hence the half-width does
\* not decrease with k and at step 4 it is twice the half-width at step 1.
C22_HalfWidthGrowsWithSqrt ==
    (Fitted /\ forecast_result.ok) =>
        LET r == forecast_result
            w == [k \in 1..Len(r.forecast_values) |-> Half(r.lower_ci[k], r.upper_ci[k])]
        IN  /\ \A k \in 1..Len(w) :
                 /\ FSub(r.forecast_values[k], r.lower_ci[k])
                        = FSub(r.upper_ci[k], r.forecast_values[k])
                 /\ w[k] = IF IsNaN(r.residual_std) THEN NaN
                           ELSE (((r.residual_std * ZMilli(confLevel)) \div 1000)
                                    * ISqrt(k * 1000000)) \div 1000
            /\ \A k \in 1..(Len(w) - 1) : FLe(w[k], w[k + 1])
            /\ Len(w) >= 4 => (~IsNaN(w[1]) /\ w[4] = 2 * w[1])

(* ================== properties: backtest metrics ====================== *)

\* the last 7 observations of the series and what the collected model at
\* position i of results forecast for them
Holdout == [k \in 1..7 |-> series[Len(series) - 7 + k]]

BacktestForecast(i) ==
    LET m == results[i].model
    IN  FitAndForecast(m, SubSeq(series, 1, Len(series) - 7), lastDate - 7, 7, 95,
                       lib[<<m, "train">>]).forecast_values

\* |a - p| / |a| * 100, in hundredths of a percent
PctError(a, p) == (Abs(a - p) * 10000) \div Abs(a)

\* C23: the backtest MAPE is the mean of |actual - predicted| / |actual| * 100
\* over the holdout positions whose actual value is not zero (zero actuals
\* neither contribute nor count in the denominator), it is infinite exactly
\* when all 7 held-out values are zero, and RMSE and MAE are computed over
\* all 7 positions.
C23_MapeOverNonZeroActuals ==
    caller = "select_best_model" =>
        \A i \in 1..Len(results) :
            LET mt == results[i].metrics
                a == Holdout
                p == BacktestForecast(i)
                nz == {k \in 1..7 : a[k] # 0}
            IN  /\ mt.mape = Inf <=> nz = {}
                /\ nz # {} =>
                     mt.mape
                       = SeqSum([k \in 1..7 |-> IF k \in nz THEN PctError(a[k], p[k]) ELSE 0])
                           \div Cardinality(nz)
                /\ mt.rmse
                     = ISqrt(SeqSum([k \in 1..7 |-> (a[k] - p[k]) * (a[k] - p[k])]) \div 7)
                /\ mt.mae = SeqSum([k \in 1..7 |-> Abs(a[k] - p[k])]) \div 7

\* a backtest on a holdout of four days with a cost and three without: the
\* MAPE is finite and positive, and the forecasts for the three days without
\* a cost, which are not zero, count in the MAE
C23_Witness ==
    /\ Selected
    /\ Len(results) > 0
    /\ Cardinality({k \in 1..7 : Holdout[k] # 0}) = 4
    /\ \E i \in 1..Len(results) :
         LET a == Holdout
             p == BacktestForecast(i)
         IN  /\ results[i].metrics.mape > 0
             /\ results[i].metrics.mape < Inf
             /\ \A k \in 1..7 : p[k] # 0
             /\ results[i].metrics.mae * 7
                  > SeqSum([k \in 1..7 |-> IF a[k] # 0 THEN Abs(a[k] - p[k]) ELSE 0]) + 6

\* C24 as stated: directional accuracy is the percentage of the 6 day-over-day
\* steps of the holdout on which forecast and actual fall in the same class,
\* the classes being "up" (strict increase) and "flat-or-down" (no change or
\* decrease): a flat forecast step matches a decreasing actual step and does
\* not match an increasing one.
C24_FlatCountsAsDown ==
    caller = "select_best_model" =>
        \A i \in 1..Len(results) :
            LET a == Holdout
                p == BacktestForecast(i)
                same == {k \in 1..6 : (a[k + 1] > a[k]) <=> (p[k + 1] > p[k])}
            IN  results[i].metrics.directional_accuracy
                    = (Cardinality(same) * 10000) \div 6

\* C24 as amended: the classes are "up-or-flat" (no change or increase) and
\* "down" (strict decrease): a flat forecast step matches an increasing or
\* an unchanged actual step and does not match a decreasing one.
C24_FlatCountsAsUp ==
    caller = "select_best_model" =>
        \A i \in 1..Len(results) :
            LET a == Holdout
                p == BacktestForecast(i)
                same == {k \in 1..6 : (a[k + 1] < a[k]) <=> (p[k + 1] < p[k])}
            IN  results[i].metrics.directional_accuracy
                    = (Cardinality(same) * 10000) \div 6

\* the flat forecast of the weighted moving average against a holdout that
\* rises for three steps, falls once and then stays: five of the six steps
\* count as matches, the fall alone does not
C24_Witness ==
    /\ Selected
    /\ \E i \in 1..Len(results) :
         LET a == Holdout
             p == BacktestForecast(i)
         IN  /\ results[i].model = WMA
             /\ \A k \in 1..6 : p[k + 1] = p[k]
             /\ Cardinality({k \in 1..6 : a[k + 1] > a[k]}) = 3
             /\ Cardinality({k \in 1..6 : a[k + 1] < a[k]}) = 1
             /\ Cardinality({k \in 1..6 : a[k + 1] = a[k]}) = 2
             /\ results[i].metrics.directional_accuracy = 50000 \div 6

\* C25: the metrics list select_best_model returns is empty if and only if no
\* model produced a backtest result; when it is not empty its first entry
\* carries the name of the returned model, and every entry's model name is
\* the name of a distinct model of the input list that was backtested
\* successfully.
C25_MetricsNameTheirModels ==
    Selected =>
        /\ all_metrics = <<>> <=> OkBacktests = {}
        /\ all_metrics # <<>> => all_metrics[1].model_name = best_model
        /\ \A i \in 1..Len(all_metrics) :
             /\ \E p \in 1..Len(models) : models[p] = all_metrics[i].model_name
             /\ \E j \in OkBacktests : calls[j].model = all_metrics[i].model_name
             /\ \A k \in 1..Len(all_metrics) :
                  k # i => all_metrics[k].model_name # all_metrics[i].model_name

\* a selection in which one model of the list could not be backtested, two
\* or more could, and the winner is not the first of them in list order
C25_Witness ==
    /\ Selected
    /\ Len(all_metrics) >= 2
    /\ Len(all_metrics) < Len(models)
    /\ all_metrics[1].model_name = best_model
    /\ results[1].model # best_model

(* ================ properties: weighted moving average ================= *)

\* C26: the Weighted Moving Average model uses window = min(14, len(series)),
\* forecasts the same value at every step, the weighted average of the last
\* `window` observations with the newest observation weighted most, and its
\* fitted values are defined exactly at the positions with `window`
\* observations available (indices window-1 .. len-1) and undefined before.
C26_FlatForecastOverWindow ==
    (Fitted /\ models[1] = WMA /\ forecast_result.ok) =>
        LET r == forecast_result
            n == Len(series)
            window == IF n < 14 THEN n ELSE 14
            w == [j \in 1..window |-> ExpMilli(((j - 1) * 1000) \div (window - 1))]
            avg(last) == SeqSum([j \in 1..window |-> w[j] * series[last - window + j]])
                            \div SeqSum(w)
        IN  /\ \A j \in 1..(window - 1) : w[j] < w[j + 1]
            /\ \A k \in 1..Len(r.forecast_values) : r.forecast_values[k] = avg(n)
            /\ Len(r.fitted_values) = n
            /\ \A i \in 1..n :
                 IF i < window THEN IsNaN(r.fitted_values[i])
                 ELSE r.fitted_values[i] = avg(i)

\* a forecast of 14 steps from 20 rising observations: the value lies above
\* the plain mean of the last 14 and below the newest observation, and the
\* fitted values start at the 14th position
C26_Witness ==
    /\ Fitted
    /\ models[1] = WMA
    /\ forecast_result.ok
    /\ Len(series) = 20
    /\ horizon = MaxHorizon
    /\ forecast_result.forecast_values[MaxHorizon] < series[20]
    /\ forecast_result.forecast_values[MaxHorizon] > SeqSum(SubSeq(series, 7, 20)) \div 14
    /\ IsNaN(forecast_result.fitted_values[13])
    /\ ~IsNaN(forecast_result.fitted_values[14])

(* ==================== properties: the run's output ==================== *)

\* C27: the model name the run's output reports as selected ("best_model") is
\* the name of the model that produced the returned aggregate forecast
\* series, also when the backtest winner failed on the full series and a
\* fallback model supplied the forecast.
C27_ReportedModelMadeTheForecast ==
    Returned =>
        /\ output.best_model = forecast_result.model_name
        /\ output.forecast_series.values
               = FitAndForecast(output.best_model, series, lastDate, horizon, confLevel,
                                lib[<<output.best_model, "full">>]).forecast_values

\* C28: every ForecastResult returned by any model has a defined (not NaN),
\* non-negative residual_std, also when a single defined residual exists, as
\* for the Weighted Moving Average on a series of at most 14 observations.
C28_ResidualStdIsDefined ==
    (Fitted /\ forecast_result.ok) =>
        /\ ~IsNaN(forecast_result.residual_std)
        /\ forecast_result.residual_std >= 0

(* =================== properties: the selection in a run =============== *)

\* select_best_model has returned to run_cost_forecasting
SelectionMade ==
    /\ caller = "run_cost_forecasting"
    /\ pc \notin {"start", "select"}
    /\ output.kind # "None"

\* C29: within run_cost_forecasting, which proceeds only with 7 or more
\* input rows, the model select_best_model returns has enough observations
\* in the full series for its own min_data_points, so the "last model
\* regardless" fallback is never taken; for 7 to 13 observations the
\* selection is Weighted Moving Average with an empty metrics list, and for
\* 14 to 20 observations only Weighted Moving Average and Polynomial Trend
\* can appear in the metrics.
C29_SelectedModelCanFit ==
    SelectionMade =>
        LET n == Len(series)
            least == CASE best_model = HW -> 14 [] best_model = SD -> 21
                       [] best_model = WMA -> 7 [] best_model = PT -> 7
        IN  /\ n >= 7
            /\ n >= least
            /\ \E p \in 1..Len(models) : n >= MinDataPoints(models[p])
            /\ n \in 7..13 => (best_model = WMA /\ all_metrics = <<>>)
            /\ n \in 14..20 =>
                 \A i \in 1..Len(all_metrics) : all_metrics[i].model_name \in {WMA, PT}

\* a run on 13 observations: nothing was backtested and the weighted moving
\* average, the first model in declaration order that can fit, was selected
C29_Witness ==
    /\ SelectionMade
    /\ pc = "refit"
    /\ Len(series) = 13
    /\ calls = <<>>
    /\ all_metrics = <<>>
    /\ best_model = WMA

\* C30: given no data or fewer than 7 input rows, run_cost_forecasting
\* returns no result at all (None) without selecting, backtesting or fitting
\* any model and without producing an empty-forecast structure; with 7 or
\* more rows it always proceeds to model selection.
C30_TooFewRowsReturnNone ==
    /\ [][(caller = "run_cost_forecasting" /\ pc = "start") =>
             IF df.none \/ Len(df.rows) < 7
             THEN /\ pc' = "done"
                  /\ output' = [kind |-> "None"]
                  /\ calls' = calls
                  /\ lib' = lib
                  /\ results' = results
                  /\ best_model' = best_model
                  /\ forecast_result' = forecast_result
             ELSE /\ pc' = "select"
                  /\ output' = Pending
                  /\ models' = <<HW, SD, WMA, PT>>
                  /\ evalIdx' = 1
                  /\ Len(series') >= 7]_vars
    /\ []((caller = "run_cost_forecasting" /\ pc = "done") =>
             IF df.none \/ Len(df.rows) < 7
             THEN /\ output = [kind |-> "None"]
                  /\ calls = <<>>
                  /\ results = <<>>
                  /\ best_model = ""
                  /\ ~forecast_result.ok
                  /\ forecasts = <<>>
             ELSE /\ output.kind # "None"
                  /\ best_model \in ModelNames)

\* a DataFrame of 6 rows: the run is over, nothing was called and the output
\* is None
C30_Witness ==
    /\ caller = "run_cost_forecasting"
    /\ pc = "done"
    /\ ~df.none
    /\ Len(df.rows) = 6
    /\ output = [kind |-> "None"]
    /\ calls = <<>>

====
